---------------------------- MODULE Spec2Model ----------------------------
(***************************************************************************)
(* shipcat: manifest validation (shipcat_definitions/src/manifest.rs) and  *)
(* the parallel rollout orchestrator (shipcat_cli/src/helm).               *)
(*                                                                         *)
(* Six state machines share this module:                                   *)
(*   - Spec / FairSpec: the orchestrator, one worker per service, a        *)
(*     bounded pool, the per-manifest rollout state machine;               *)
(*   - VerifySpec: a manifest is built field by field and then handed to   *)
(*     Manifest::verify;                                                   *)
(*   - VaultSpec: Vault::read and Vault::list against a secret store       *)
(*     (shipcat_definitions/src/vault.rs);                                 *)
(*   - SecretsSpec: env and secretFiles declarations are added to a        *)
(*     manifest, then Manifest::secrets is called on it, more than once;   *)
(*   - PreflightSpec: the same declarations, then the listing-based check  *)
(*     Manifest::verify_secrets_exist;                                     *)
(*   - GraphSpec: dependencies are declared among the services, then the   *)
(*     dependency graph is built (shipcat_cli/src/graph.rs).               *)
(* Each specification leaves the other machines' variables untouched.      *)
(***************************************************************************)
EXTENDS Integers, Sequences, FiniteSets, TLC

VARIABLES
    \* ---- orchestrator ----
    mode,       \* the UpgradeMode of this orchestration request
    poolSize,   \* max_parallel: number of pool workers
    state,      \* per service: rollout state of its manifest
    running,    \* services whose job currently occupies a pool worker
    input,      \* per service: what its worker found out (NoInput before)
    helm,       \* per service: "none" | "accepted" | "rejected"
    elapsed,    \* per service: polls waited so far
    outcome,    \* per service: the worker's result (NoOutcome before)
    report,     \* per service: outcomes delivered to the aggregate report
    \* ---- validator ----
    mf,         \* the manifest under construction / verification
    edits,      \* number of field assignments applied to the base manifest
    vres,       \* result of Manifest::verify (NotRun before the call)
    \* ---- secret store client and secret reconciliation ----
    sm,         \* the manifest handed to Manifest::secrets
    decls,      \* number of env / secretFiles declarations added to sm
    vmode,      \* Vault.mode: "Standard" | "Mocked"
    store,      \* the secrets of the store looked at so far, by path
    reads,      \* the keys Vault::read was called with, in order
    requests,   \* number of HTTP requests sent to the store
    calls,      \* number of Manifest::secrets calls made on sm
    sres,       \* result of the last Manifest::secrets call
    rres,       \* result of the last direct Vault::read call
    listing,    \* the store's response to a list request
    lres,       \* result of Vault::list
    listed,     \* the paths Vault::list was called with, in order
    eres,       \* result of Manifest::verify_secrets_exist
    \* ---- dependency grapher ----
    depends,    \* the declared dependencies: <<a, b>> when a depends on b
    gres        \* result of building the dependency graph

orchVars == <<mode, poolSize, state, running, input, helm, elapsed, outcome, report>>
verifyVars == <<mf, edits, vres>>
secretVars ==
    <<sm, decls, vmode, store, reads, requests, calls, sres, rres, listing, lres,
      listed, eres>>
graphVars == <<depends, gres>>
vars == <<orchVars, verifyVars, secretVars, graphVars>>

(***************************************************************************)
(* Bounds                                                                  *)
(***************************************************************************)
MaxPool == 2
MaxBudget == 2
MaxReplicas == 2
MaxEdits == 2
MaxDecls == 2
MaxCalls == 2
MaxReads == 2
MaxKeys == 3
MaxDeps == 3

Services == {"svc-a", "svc-b", "svc-c"}

(***************************************************************************)
(* Manifest (shipcat_definitions/src/manifest.rs)                          *)
(*                                                                         *)
(* A string the regex looks into (name) is a sequence of characters.       *)
(* Option<T> of a struct with a verify of its own is "None", "Ok" (Some,   *)
(* its verify passes) or "Bad" (Some, its verify fails); Option<T> of a    *)
(* value nothing verifies is "None" or "Some"; Option<u32> is a sequence    *)
(* of length at most one; a Vec of verifiable elements is the sequence of  *)
(* its elements' "Ok" / "Bad".                                             *)
(***************************************************************************)

NameMaxLen == 50

Lower ==
    {"a", "b", "c", "d", "e", "f", "g", "h", "i", "j", "k", "l", "m",
     "n", "o", "p", "q", "r", "s", "t", "u", "v", "w", "x", "y", "z"}
Digit == {"0", "1", "2", "3", "4", "5", "6", "7", "8", "9"}

Repeat(c, n) == [i \in 1..n |-> c]

\* Service names the manifests of the model carry.
Names ==
    {<<>>,
     <<"w", "e", "b">>,
     <<"a", "-", "9">>,
     <<"-", "a">>,
     <<"a", "-">>,
     <<"-">>,
     <<"W", "e", "b">>,
     <<"a", "_", "b">>,
     <<"a", " ">>,
     Repeat("a", NameMaxLen),
     Repeat("a", NameMaxLen + 1)}

RegionNames == {"dev-uk", "prod-uk"}

Opt3 == {"None", "Ok", "Bad"}
Opt2 == {"None", "Some"}
ElemVecs == {<<>>, <<"Ok">>, <<"Bad">>, <<"Ok", "Bad">>}
VecFields ==
    <<"dependencies", "hostAliases", "tolerations", "initContainers", "workers",
      "sidecars", "cronJobs", "ports", "rbac", "persistentVolumes">>

\* The values each field of a manifest takes in the model.
FieldDomain ==
    [name |-> Names,
     region |-> RegionNames \cup {""},
     regions |-> SUBSET RegionNames,
     dataHandling |-> Opt3,
     metadata |-> Opt3,
     external |-> BOOLEAN,
     version |-> Opt3,
     gate |-> {"None", "Public", "Private"},
     kong |-> Opt2,
     publiclyAccessible |-> BOOLEAN,
     resources |-> Opt3,
     dependencies |-> ElemVecs,
     hostAliases |-> ElemVecs,
     tolerations |-> ElemVecs,
     initContainers |-> ElemVecs,
     workers |-> ElemVecs,
     sidecars |-> ElemVecs,
     cronJobs |-> ElemVecs,
     ports |-> ElemVecs,
     rbac |-> ElemVecs,
     persistentVolumes |-> ElemVecs,
     configs |-> Opt3,
     replicaCount |-> {<<>>} \cup {<<n>> : n \in 0..MaxReplicas},
     rollingUpdate |-> Opt3,
     env |-> {"Ok", "Bad"},
     image |-> Opt2,
     imageSize |-> Opt2,
     chart |-> Opt2,
     namespace |-> {"", "apps"},
     environment |-> {"", "dev"},
     httpPort |-> Opt2,
     health |-> Opt2,
     readinessProbe |-> Opt2,
     serviceAnnotations |-> {<<>>, <<"annotation">>},
     database |-> Opt3,
     redis |-> Opt3]

Fields == DOMAIN FieldDomain

\* #[derive(Default)]: empty strings, false, None, empty collections.
DefaultManifest ==
    [name |-> <<>>,
     region |-> "",
     regions |-> {},
     dataHandling |-> "None",
     metadata |-> "None",
     external |-> FALSE,
     version |-> "None",
     gate |-> "None",
     kong |-> "None",
     publiclyAccessible |-> FALSE,
     resources |-> "None",
     dependencies |-> <<>>,
     hostAliases |-> <<>>,
     tolerations |-> <<>>,
     initContainers |-> <<>>,
     workers |-> <<>>,
     sidecars |-> <<>>,
     cronJobs |-> <<>>,
     ports |-> <<>>,
     rbac |-> <<>>,
     persistentVolumes |-> <<>>,
     configs |-> "None",
     replicaCount |-> <<>>,
     rollingUpdate |-> "None",
     env |-> "Ok",
     image |-> "None",
     imageSize |-> "None",
     chart |-> "None",
     namespace |-> "",
     environment |-> "",
     httpPort |-> "None",
     health |-> "None",
     readinessProbe |-> "None",
     serviceAnnotations |-> <<>>,
     database |-> "None",
     redis |-> "None"]

\* A reference-only entry: identity and metadata, external, nothing else.
ExternalManifest ==
    [DefaultManifest EXCEPT
        !.name = <<"w", "e", "b">>,
        !.region = "dev-uk",
        !.regions = {"dev-uk"},
        !.metadata = "Ok",
        !.external = TRUE]

\* A service as the merge and the implicits leave it: every mandatory and
\* every pipeline-set field populated, an http port with its health check.
CompleteManifest ==
    [DefaultManifest EXCEPT
        !.name = <<"w", "e", "b">>,
        !.region = "dev-uk",
        !.regions = {"dev-uk", "prod-uk"},
        !.metadata = "Ok",
        !.version = "Ok",
        !.resources = "Ok",
        !.ports = <<"Ok">>,
        !.replicaCount = <<1>>,
        !.image = "Some",
        !.imageSize = "Some",
        !.chart = "Some",
        !.namespace = "apps",
        !.environment = "dev",
        !.httpPort = "Some",
        !.health = "Some"]

BaseManifests == {DefaultManifest, ExternalManifest, CompleteManifest}

\* A literal or a formatted scalar of a message; an interpolated service name
\* is the name itself, the sequence of its characters.
Lit(s) == <<s>>

\* Result values of verify: Ok(()), Err(message) of the numbered check, or a
\* panic. A message is the sequence of its literal and interpolated parts;
\* warns are the warn! lines logged on the way.
NotRun == [kind |-> "NotRun", check |-> "", msg |-> <<>>, warns |-> {}]
Ok(warns) == [kind |-> "Ok", check |-> "", msg |-> <<>>, warns |-> warns]
Err(check, msg, warns) == [kind |-> "Err", check |-> check, msg |-> msg, warns |-> warns]
Panic(check, msg) == [kind |-> "Panic", check |-> check, msg |-> msg, warns |-> {}]

\* Regex ^[0-9a-z\-]{1,50}$ (regex crate: $ is the end of the text).
NameMatchesAnyLength(n) ==
    /\ Len(n) >= 1
    /\ \A i \in 1..Len(n) : n[i] \in Digit \cup Lower \cup {"-"}

NameMatches(n) ==
    /\ Len(n) >= 1 /\ Len(n) <= NameMaxLen
    /\ \A i \in 1..Len(n) : n[i] \in Digit \cup Lower \cup {"-"}

DashAtEnd(n) == Len(n) >= 1 /\ n[Len(n)] = "-"

\* name.ends_with('-') || name.starts_with('-')
DashAtEdge(n) == Len(n) >= 1 /\ (n[Len(n)] = "-" \/ n[1] = "-")

\* x.verify()? of every element of a Vec.
AllElementsOk(v) == \A i \in 1..Len(v) : v[i] = "Ok"

NoBadVec(m) == 0

\* Index of the first vectorised field with a failing element, 0 if none.
FirstBadVec(m) ==
    IF \A i \in 1..Len(VecFields) : AllElementsOk(m[VecFields[i]]) THEN 0
    ELSE CHOOSE i \in 1..Len(VecFields) :
            /\ ~AllElementsOk(m[VecFields[i]])
            /\ \A j \in 1..(i - 1) : AllElementsOk(m[VecFields[j]])

\* The warn! lines of a run that reaches the end of the health check section.
HealthWarns(m) ==
    (IF m.httpPort = "None" THEN {<<m.name, Lit(" exposes no http port")>>} ELSE {})
    \cup (IF m.health = "None" /\ m.readinessProbe = "None"
          THEN {<<m.name, Lit(" does not set a health check")>>} ELSE {})
    \cup (IF m.serviceAnnotations # <<>>
          THEN {<<Lit("serviceAnnotation is an experimental/temporary feature")>>}
          ELSE {})

HealthCheckNeverRequired(m) == FALSE

\* every service that exposes http MUST have a health check
HealthCheckMissing(m) ==
    m.httpPort # "None" /\ (m.health = "None" /\ m.readinessProbe = "None")

ExternalSkipsNothing(m) == FALSE

\* if self.external { warn!(..); return Ok(()) }
ExternalSkip(m) == m.external

ReplicaCountIsZeroNever(m) == FALSE

\* self.replicaCount.unwrap() == 0
ReplicaCountIsZero(m) == m.replicaCount[1] = 0

\* !self.regions.contains(&self.region)
RegionUnsupported(m) == m.region \notin m.regions

MetadataMissingUnlessExternal(m) == m.metadata = "None" /\ ~m.external

\* if let Some(ref md) = self.metadata { .. } else { bail!("Missing metadata ..") }
MetadataMissing(m) == m.metadata = "None"

\* The slack message of a manifest: its metadata and, maybe, a code diff.
MessageFor(m, code) == [metadata |-> m.metadata, code |-> code]

\* slack::send, the attachment of the code diff:
\* if let Some(diff) = msg.code { let md = msg.metadata.clone().unwrap(); .. }
AttachCode(msg) ==
    IF msg.code # <<>> /\ msg.metadata = "None"
    THEN Panic("slack", <<Lit("called Option::unwrap() on a None value")>>)
    ELSE Ok({})

GatePublicEqual(m) == (m.gate = "Public") = m.publiclyAccessible

\* g.public != self.publiclyAccessible, for a manifest with a gate
GatePublicDiffers(m) == (m.gate = "Public") # m.publiclyAccessible

\* The checks after the external return, in the order of the source.
VerifyKubeService(m) ==
    IF m.version = "Bad" THEN Err("version", <<Lit("versioningScheme")>>, {})
    ELSE IF m.gate # "None" /\ m.kong = "None"
    THEN Err("gate", <<Lit("Can not have a gate configuration without a kong one")>>, {})
    ELSE IF m.gate # "None" /\ GatePublicDiffers(m)
    THEN Err("gate", <<Lit("[Migration plan] publiclyAccessible and gate.public must be equal")>>, {})
    ELSE IF m.resources = "Bad" THEN Err("resources", <<Lit("resources")>>, {})
    ELSE IF m.resources = "None" THEN Err("resources", <<Lit("Resources is mandatory")>>, {})
    ELSE IF FirstBadVec(m) # 0
    THEN Err("elements", <<Lit(VecFields[FirstBadVec(m)])>>, {})
    ELSE IF m.configs = "Bad" THEN Err("elements", <<Lit("configs")>>, {})
    ELSE IF m.replicaCount = <<>>
    THEN Panic("replicaCount", <<Lit("called Option::unwrap() on a None value")>>)
    ELSE IF ReplicaCountIsZero(m)
    THEN Err("replicaCount", <<Lit("Need replicaCount to be at least 1")>>, {})
    ELSE IF m.rollingUpdate = "Bad" THEN Err("rollingUpdate", <<Lit("rollingUpdate")>>, {})
    ELSE IF m.env = "Bad" THEN Err("env", <<Lit("env")>>, {})
    ELSE IF m.image = "None"
    THEN Err("internal", <<Lit("Image should be set at this point")>>, {})
    ELSE IF m.imageSize = "None"
    THEN Err("internal", <<Lit("imageSize must be set at this point")>>, {})
    ELSE IF m.chart = "None"
    THEN Err("internal", <<Lit("chart must be set at this point")>>, {})
    ELSE IF m.namespace = ""
    THEN Err("internal", <<Lit("namespace must be set at this point")>>, {})
    ELSE IF m.regions = {}
    THEN Err("internal", <<Lit("No regions specified for "), m.name>>, {})
    ELSE IF m.environment = ""
    THEN Err("internal", <<Lit("Service "), m.name, Lit(" ended up with an empty environment")>>, {})
    ELSE IF m.namespace = ""
    THEN Err("internal", <<Lit("Service "), m.name, Lit(" ended up with an empty namespace")>>, {})
    ELSE IF HealthCheckMissing(m)
    THEN Err("health", <<m.name, Lit(" has an httpPort but no health check")>>, {})
    ELSE IF m.database = "Bad" THEN Err("database", <<Lit("database")>>, HealthWarns(m))
    ELSE IF m.redis = "Bad" THEN Err("redis", <<Lit("redis")>>, HealthWarns(m))
    ELSE Ok(HealthWarns(m))

\* Manifest::verify
Verify(m) ==
    IF m.region = ""
    THEN Panic("region", <<Lit("assertion failed: self.region is empty")>>)
    ELSE IF RegionUnsupported(m)
    THEN Err("region", <<Lit("Unsupported region "), Lit(m.region), Lit(" for service "), m.name>>, {})
    ELSE IF ~NameMatches(m.name)
    THEN Err("name", <<Lit("Please use a short, lower case service names with dashes")>>, {})
    ELSE IF DashAtEdge(m.name)
    THEN Err("name", <<Lit("Please use dashes to separate words only")>>, {})
    ELSE IF m.dataHandling = "Bad" THEN Err("dataHandling", <<Lit("dataHandling")>>, {})
    ELSE IF m.metadata = "Bad" THEN Err("metadata", <<Lit("metadata")>>, {})
    ELSE IF MetadataMissing(m)
    THEN Err("metadata", <<Lit("Missing metadata for "), m.name>>, {})
    ELSE IF ExternalSkip(m)
    THEN Ok({<<Lit("Ignoring most validation for kube-external service "), m.name>>})
    ELSE VerifyKubeService(m)

(***************************************************************************)
(* Secret store client (shipcat_definitions/src/vault.rs)                  *)
(*                                                                         *)
(* A secret value is the sequence of its characters. The store holds, per  *)
(* path, what a GET of that path answers: no usable answer, a data map     *)
(* without a value entry, or a data map whose value is a string or an      *)
(* integer. A result is ROk(value) or RErr(kind, subject).                 *)
(***************************************************************************)

Upper ==
    {"A", "B", "C", "D", "E", "F", "G", "H", "I", "J", "K", "L", "M",
     "N", "O", "P", "Q", "R", "S", "T", "U", "V", "W", "X", "Y", "Z"}

DigitChars == <<"0", "1", "2", "3", "4", "5", "6", "7", "8", "9">>

\* "hello" (what tests::get_dev_secret reads at FAKE_SECRET)
Hello == <<"h", "e", "l", "l", "o">>

\* "aGk=" (base64 of "hi")
B64Hi == <<"a", "G", "k", "=">>

\* The sentinel "IN_VAULT"
InVault == <<"I", "N", "_", "V", "A", "U", "L", "T">>

MockedPlainValue == <<"h", "e", "l", "l", "o", " ", "w", "o", "r", "l", "d">>

\* "aGVsbG8gd29ybGQ=": what a mocked read returns
MockedValue ==
    <<"a", "G", "V", "s", "b", "G", "8", "g", "d", "2", "9", "y", "b", "G", "Q", "=">>

StringValues == {B64Hi, Hello, InVault}
IntValues == {-2, 10}

\* What the store answers for one path.
Unreachable == [kind |-> "Unreachable"]
NoValue == [kind |-> "NoValue"]
SecretS(s) == [kind |-> "S", s |-> s]
SecretI(i) == [kind |-> "I", i |-> i]

StoreEntries ==
    {Unreachable, NoValue} \cup {SecretS(s) : s \in StringValues} \cup {SecretI(i) : i \in IntValues}

NotCalled == [ok |-> FALSE, err |-> "NotCalled"]
ROk(v) == [ok |-> TRUE, v |-> v]
RErr(e, subject) == [ok |-> FALSE, err |-> e, subject |-> subject]

RECURSIVE Decimal(_)
Decimal(n) ==
    IF n < 10 THEN <<DigitChars[n + 1]>>
    ELSE Decimal(n \div 10) \o <<DigitChars[(n % 10) + 1]>>

IntToStringUnsigned(i) == IF i < 0 THEN Decimal(-i) ELSE Decimal(i)

\* i64::to_string
IntToString(i) == IF i < 0 THEN <<"-">> \o Decimal(-i) ELSE Decimal(i)

\* impl From<SecretValue> for String
SecretValueToString(e) == IF e.kind = "I" THEN IntToString(e.i) ELSE e.s

\* format!("secret/{}", key)
SecretPath(key) == <<"secret">> \o key

\* Vault::read for the answer e of the store at the key: the value read, or
\* the failure.
VaultRead(md, key, e) ==
    IF md = "Mocked" THEN ROk(MockedValue)
    ELSE IF e.kind = "Unreachable" THEN RErr("SecretNotAccessible", SecretPath(key))
    ELSE IF e.kind = "NoValue" THEN RErr("InvalidSecretForm", SecretPath(key))
    ELSE ROk(SecretValueToString(e))

\* HTTP requests one Vault::read sends.
ReadRequests(md) == IF md = "Mocked" THEN 0 ELSE 1

StartsWithSlash(e) == Len(e) >= 1 /\ e[1] = "/"

\* e.ends_with("/")
EndsWithSlash(e) == Len(e) >= 1 /\ e[Len(e)] = "/"

IsFile(e) == ~EndsWithSlash(e)

\* A list response: no usable answer, a data map without keys, or the keys.
NoKeys == [kind |-> "NoKeys"]
Keys(ks) == [kind |-> "Keys", keys |-> ks]

\* Vault::list for the response of the store.
VaultList(path, resp) ==
    IF resp.kind = "Unreachable" THEN RErr("UnexpectedHttpStatus", path)
    ELSE IF resp.kind = "NoKeys" THEN RErr("NoKeysList", path)
    ELSE ROk(SelectSeq(resp.keys, IsFile))

(***************************************************************************)
(* Secret reconciliation (Manifest::secrets, manifest.rs)                  *)
(*                                                                         *)
(* An env container maps a key to a plain value, to the IN_VAULT sentinel  *)
(* or to a template secret with its resolved value. A path is the sequence *)
(* of its segments. BTreeMap and BTreeSet iterate in key order: KeySeq.    *)
(***************************************************************************)

EnvKeys == {"API_KEY", "DB_URL"}
FileKeys == {"DB_URL", "ssl-keystore"}
KeySeq == <<"API_KEY", "DB_URL", "ssl-keystore">>

EmptyMap == [k \in {} |-> <<>>]

\* BTreeMap::get: an Option, a sequence of length at most one
Get(f, k) == IF k \in DOMAIN f THEN <<f[k]>> ELSE <<>>

\* BTreeMap::insert
Put(f, k, v) == (k :> v) @@ f

Plain(v) == [kind |-> "Plain", v |-> v]
FromVault == [kind |-> "Vault", v |-> InVault]
Tmpl(v) == [kind |-> "Tmpl", v |-> v]

EnvEntries == {Plain(<<"8", "0">>), FromVault, Tmpl(<<"a">>), Tmpl(<<"b">>)}
FileValues == {InVault, B64Hi, Hello}

\* Option<VaultOpts>: None, or an override of the name and maybe the region.
VaultOverrides ==
    {<<>>,
     <<[name |-> "shared", region |-> <<>>]>>,
     <<[name |-> "shared", region |-> <<"prod-uk">>]>>}

\* VaultConfig::folder of the region the manifest is resolved for
VaultFolder == "dev-uk"

\* A manifest with one sidecar, one worker and one cron job, nothing declared.
EmptySecretsManifest ==
    [name |-> "web",
     vault |-> <<>>,
     env |-> EmptyMap,
     sidecars |-> <<EmptyMap>>,
     workers |-> <<EmptyMap>>,
     cronJobs |-> <<EmptyMap>>,
     secretFiles |-> EmptyMap,
     secrets |-> EmptyMap]

\* EnvVars::vault_secrets
vault_secrets(e) == {k \in DOMAIN e : e[k].kind = "Vault"}

\* EnvVars::template_secrets
template_secrets(e) == [k \in {x \in DOMAIN e : e[x].kind = "Tmpl"} |-> e[k].v]

GetVaultPathInRegionFolder(m, folder) ==
    <<folder, (IF m.vault # <<>> THEN m.vault[1].name ELSE m.name)>>

\* Manifest::get_vault_path
get_vault_path(m, folder) ==
    IF m.vault # <<>>
    THEN <<(IF m.vault[1].region # <<>> THEN m.vault[1].region[1] ELSE folder),
           m.vault[1].name>>
    ELSE <<folder, m.name>>

\* format!("{}/{}", pth, k)
VKey(pth, k) == Append(pth, k)

GetEnvVarsWithResolved(m) ==
    <<m.env>> \o m.sidecars \o m.workers \o m.cronJobs
        \o <<[k \in DOMAIN m.secrets |-> Tmpl(m.secrets[k])]>>

\* Manifest::get_env_vars
GetEnvVars(m) == <<m.env>> \o m.sidecars \o m.workers \o m.cronJobs

\* original.iter().any(|x| x == &v), original the Option insert returned
TemplateClash(original, v) == \E j \in 1..Len(original) : original[j] = v

\* for (k, v) in e.template_secrets() { insert; bail on a clash }
RECURSIVE InsertTemplates(_, _, _)
InsertTemplates(ts, i, acc) ==
    IF acc.err # <<>> \/ i > Len(KeySeq) THEN acc
    ELSE IF KeySeq[i] \notin DOMAIN ts THEN InsertTemplates(ts, i + 1, acc)
    ELSE LET k == KeySeq[i]
             original == IF k \in DOMAIN acc.tmpl THEN <<acc.tmpl[k]>> ELSE <<>>
             next == [acc EXCEPT !.tmpl = Put(acc.tmpl, k, ts[k])]
         IN IF TemplateClash(original, ts[k])
            THEN [next EXCEPT !.err = <<k>>]
            ELSE InsertTemplates(ts, i + 1, next)

\* for e in &mut self.get_env_vars() { ... }
RECURSIVE CollectSecrets(_, _, _)
CollectSecrets(es, c, acc) ==
    IF acc.err # <<>> \/ c > Len(es) THEN acc
    ELSE CollectSecrets(es, c + 1,
            InsertTemplates(template_secrets(es[c]), 1,
                [acc EXCEPT !.vault = @ \cup vault_secrets(es[c])]))

NoConflictKeys(vault, tmpl) == {}

\* vault_secrets.intersection(&template_keys)
ConflictKeys(vault, tmpl) == vault \cap DOMAIN tmpl

\* The first key, in key order, of a non-empty set of keys.
FirstKey(ks) ==
    KeySeq[CHOOSE i \in 1..Len(KeySeq) :
              KeySeq[i] \in ks /\ \A j \in 1..(i - 1) : KeySeq[j] \notin ks]

EntryAt(st, key) == IF key \in DOMAIN st THEN st[key] ELSE Unreachable

\* for k in vault_secrets { self.secrets.insert(k, client.read(&vkey)?) }
RECURSIVE ReadSecrets(_, _, _, _, _, _)
ReadSecrets(md, st, pth, ks, i, acc) ==
    IF acc.err # <<>> \/ i > Len(KeySeq) THEN acc
    ELSE IF KeySeq[i] \notin ks THEN ReadSecrets(md, st, pth, ks, i + 1, acc)
    ELSE LET vkey == VKey(pth, KeySeq[i])
             r == VaultRead(md, vkey, EntryAt(st, vkey))
             read == [acc EXCEPT !.reads = Append(@, vkey)]
         IN IF r.ok
            THEN ReadSecrets(md, st, pth, ks, i + 1,
                    [read EXCEPT !.secrets = Put(@, KeySeq[i], r.v)])
            ELSE [read EXCEPT !.err = <<r>>]

\* self.secrets.append(&mut template_secrets)
AppendTemplates(secrets, tmpl) == tmpl @@ secrets

Base64Alphabet == Upper \cup Lower \cup Digit \cup {"+", "/"}

\* Number of "=" at the end of v.
RECURSIVE Padding(_)
Padding(v) ==
    IF Len(v) >= 1 /\ v[Len(v)] = "=" THEN 1 + Padding(SubSeq(v, 1, Len(v) - 1)) ELSE 0

Base64AcceptsAll(v) == TRUE

\* base64::decode(v).is_ok(): groups of four characters of the alphabet, the
\* last group padded with at most two "=".
Base64Decodes(v) ==
    /\ Len(v) % 4 = 0
    /\ Padding(v) <= 2
    /\ \A i \in 1..(Len(v) - Padding(v)) : v[i] \in Base64Alphabet

\* for (k, v) in &mut self.secretFiles { read the sentinels; check base64 }
RECURSIVE ReadFiles(_, _, _, _, _)
ReadFiles(md, st, pth, i, acc) ==
    IF acc.err # <<>> \/ i > Len(KeySeq) THEN acc
    ELSE IF KeySeq[i] \notin DOMAIN acc.files THEN ReadFiles(md, st, pth, i + 1, acc)
    ELSE LET k == KeySeq[i]
             vkey == VKey(pth, k)
             sentinel == acc.files[k] = InVault
             r == IF sentinel THEN VaultRead(md, vkey, EntryAt(st, vkey))
                  ELSE ROk(acc.files[k])
             read == IF sentinel THEN [acc EXCEPT !.reads = Append(@, vkey)] ELSE acc
         IN IF ~r.ok THEN [read EXCEPT !.err = <<r>>]
            ELSE IF ~Base64Decodes(r.v)
            THEN [read EXCEPT !.files = Put(@, k, r.v),
                              !.err = <<RErr("NotBase64", <<k>>)>>]
            ELSE ReadFiles(md, st, pth, i + 1, [read EXCEPT !.files = Put(@, k, r.v)])

SecretsReadingFirst(m, md, st) ==
    LET pth == get_vault_path(m, VaultFolder)
        col == CollectSecrets(GetEnvVars(m), 1,
                    [vault |-> {}, tmpl |-> EmptyMap, err |-> <<>>])
        rd == ReadSecrets(md, st, pth, col.vault, 1,
                    [secrets |-> m.secrets, reads |-> <<>>, err |-> <<>>])
        m2 == [m EXCEPT !.secrets = AppendTemplates(rd.secrets, col.tmpl)]
        fl == ReadFiles(md, st, pth, 1,
                    [files |-> m.secretFiles, reads |-> rd.reads, err |-> <<>>])
    IN IF col.err # <<>>
       THEN [m |-> m, reads |-> <<>>,
             res |-> RErr("DifferentTemplateValues", <<col.err[1]>>)]
       ELSE IF rd.err # <<>>
       THEN [m |-> [m EXCEPT !.secrets = rd.secrets], reads |-> rd.reads,
             res |-> rd.err[1]]
       ELSE IF ConflictKeys(col.vault, col.tmpl) # {}
       THEN [m |-> [m EXCEPT !.secrets = rd.secrets], reads |-> rd.reads,
             res |-> RErr("TemplatedAndVault",
                          <<FirstKey(ConflictKeys(col.vault, col.tmpl))>>)]
       ELSE [m |-> [m2 EXCEPT !.secretFiles = fl.files], reads |-> fl.reads,
             res |-> IF fl.err # <<>> THEN fl.err[1] ELSE ROk(<<>>)]

\* Manifest::secrets on manifest m with a client in mode md of the store st:
\* the manifest afterwards, the reads issued, and the result.
Secrets(m, md, st) ==
    LET pth == get_vault_path(m, VaultFolder)
        col == CollectSecrets(GetEnvVars(m), 1,
                    [vault |-> {}, tmpl |-> EmptyMap, err |-> <<>>])
        rd == ReadSecrets(md, st, pth, col.vault, 1,
                    [secrets |-> m.secrets, reads |-> <<>>, err |-> <<>>])
        m2 == [m EXCEPT !.secrets = AppendTemplates(rd.secrets, col.tmpl)]
        fl == ReadFiles(md, st, pth, 1,
                    [files |-> m.secretFiles, reads |-> rd.reads, err |-> <<>>])
    IN IF col.err # <<>>
       THEN [m |-> m, reads |-> <<>>,
             res |-> RErr("DifferentTemplateValues", <<col.err[1]>>)]
       ELSE IF ConflictKeys(col.vault, col.tmpl) # {}
       THEN [m |-> m, reads |-> <<>>,
             res |-> RErr("TemplatedAndVault",
                          <<FirstKey(ConflictKeys(col.vault, col.tmpl))>>)]
       ELSE IF rd.err # <<>>
       THEN [m |-> [m EXCEPT !.secrets = rd.secrets], reads |-> rd.reads,
             res |-> rd.err[1]]
       ELSE [m |-> [m2 EXCEPT !.secretFiles = fl.files], reads |-> fl.reads,
             res |-> IF fl.err # <<>> THEN fl.err[1] ELSE ROk(<<>>)]

\* The store paths Manifest::secrets may read for m.
NeededKeys(m) ==
    LET pth == get_vault_path(m, VaultFolder)
        es == GetEnvVars(m)
    IN {VKey(pth, k) : k \in UNION {vault_secrets(es[c]) : c \in 1..Len(es)}}
         \cup {VKey(pth, k) : k \in {f \in DOMAIN m.secretFiles : m.secretFiles[f] = InVault}}

\* self.env.plain ... .filter(|(_, v)| v == "IN_VAULT")
KeysInVault(m) == {k \in DOMAIN m.env : m.env[k].v = InVault}

NoFilesInVault(m) == {}

\* self.secretFiles ... .filter(|(_, v)| v == "IN_VAULT")
FilesInVault(m) == {f \in DOMAIN m.secretFiles : m.secretFiles[f] = InVault}

\* found.contains(&k); a listed entry is the key, and "/" after it when the
\* entry is a sub-folder
Contains(found, k) == \E i \in 1..Len(found) : found[i] = <<k>>

\* Manifest::verify_secrets_exist on manifest m, with or without a token in
\* the environment, resp the store's response to the list request: the
\* result, the paths listed and the result of Vault::list.
VerifySecretsExist(m, token, resp) ==
    LET keys == KeysInVault(m)
        files == FilesInVault(m)
        secpth == get_vault_path(m, VaultFolder)
        found == VaultList(secpth, resp)
        missingKeys == {k \in keys : ~Contains(found.v, k)}
        missingFiles == {f \in files : ~Contains(found.v, f)}
    IN IF keys = {} /\ files = {}
       THEN [res |-> ROk(<<>>), listed |-> <<>>, lres |-> NotCalled]
       ELSE IF ~token
       THEN [res |-> RErr("MissingToken", <<>>), listed |-> <<>>, lres |-> NotCalled]
       ELSE IF ~found.ok
       THEN [res |-> found, listed |-> <<secpth>>, lres |-> found]
       ELSE IF missingKeys # {}
       THEN [res |-> RErr("SecretNotFound", <<FirstKey(missingKeys)>>),
             listed |-> <<secpth>>, lres |-> found]
       ELSE IF missingFiles # {}
       THEN [res |-> RErr("SecretFileNotFound", <<FirstKey(missingFiles)>>),
             listed |-> <<secpth>>, lres |-> found]
       ELSE [res |-> ROk(<<>>), listed |-> <<secpth>>, lres |-> found]

SecretsIdle ==
    /\ sm = EmptySecretsManifest
    /\ decls = 0
    /\ vmode = "Mocked"
    /\ store = EmptyMap
    /\ reads = <<>>
    /\ requests = 0
    /\ calls = 0
    /\ sres = NotCalled
    /\ rres = NotCalled
    /\ listing = Unreachable
    /\ lres = NotCalled
    /\ listed = <<>>
    /\ eres = NotCalled

(***************************************************************************)
(* Dependency grapher (shipcat_cli/src/graph.rs)                           *)
(*                                                                         *)
(* One node per manifest and one edge per declared dependency. A rollout   *)
(* order lists a service after every service it depends on.                *)
(***************************************************************************)

\* The manifests of the set, in the order they were loaded.
ServiceSeq == <<"svc-a", "svc-b", "svc-c">>

\* The services a declares as its dependencies.
DependenciesOf(edges, a) == {b \in Services : <<a, b>> \in edges}

\* The first, in load order, of a non-empty set of services.
FirstService(nodes) ==
    ServiceSeq[CHOOSE i \in 1..Len(ServiceSeq) :
                  ServiceSeq[i] \in nodes /\ \A j \in 1..(i - 1) : ServiceSeq[j] \notin nodes]

ReadyOrGuessed(nodes, done, edges) ==
    LET ready == {n \in nodes : DependenciesOf(edges, n) \subseteq done}
    IN IF ready = {} /\ nodes # {} THEN {FirstService(nodes)} ELSE ready

\* The nodes whose dependencies all have their place in the order already.
Ready(nodes, done, edges) == {n \in nodes : DependenciesOf(edges, n) \subseteq done}

\* The order of the nodes left, after the ones ordered so far; nodes that
\* wait for each other have no place in any order: a cycle.
RECURSIVE RolloutOrder(_, _, _)
RolloutOrder(nodes, edges, order) ==
    IF nodes = {} THEN ROk(order)
    ELSE LET done == {order[i] : i \in 1..Len(order)}
             ready == Ready(nodes, done, edges)
         IN IF ready = {} THEN RErr("CycleDetected", nodes)
            ELSE RolloutOrder(nodes \ {FirstService(ready)}, edges,
                              Append(order, FirstService(ready)))

\* build(manifests): the graph with its rollout order, or the cycle error.
Build(nodes, edges) ==
    LET r == RolloutOrder(nodes, edges, <<>>)
    IN IF r.ok THEN ROk([nodes |-> nodes, edges |-> edges, order |-> r.v]) ELSE r

GraphIdle ==
    /\ depends = {}
    /\ gres = NotCalled

(***************************************************************************)
(* Orchestrator (helm::parallel / helm::direct / helm::helpers)            *)
(***************************************************************************)

\* UpgradeMode: fresh install, normal upgrade, upgrade-and-wait,
\* upgrade-with-post-failure-rollback, diff-only, explicit rollback.
UpgradeMode ==
    {"UpgradeInstall", "Upgrade", "UpgradeWait", "UpgradeWaitMaybeRollback",
     "DiffOnly", "Rollback"}

RolloutState ==
    {"Pending", "Dispatched", "WaitingForRollout",
     "Succeeded", "TimedOut", "Failed", "RolledBack"}

Terminal == {"Succeeded", "TimedOut", "Failed", "RolledBack"}

\* HErrKind, plus the two non-error outcomes of a worker.
OutcomeKind ==
    {"Succeeded", "UpgradeTimeout", "HelmUpgradeFailure",
     "MissingRollingVersion", "ValidationError"}

NoInput == [read |-> FALSE]
NoOutcome == [kind |-> "none"]

Outcome(k, s, secs) == [kind |-> k, name |-> s, secs |-> secs]

\* HErrKind::MissingRollingVersion(String)
MissingRollingVersion(s) == Outcome("MissingRollingVersion", s, 0)

\* HErrKind::HelmUpgradeFailure(String)
HelmUpgradeFailure(s) == Outcome("HelmUpgradeFailure", s, 0)

UpgradeTimeoutAsFailure(s, secs) == Outcome("HelmUpgradeFailure", s, 0)

\* HErrKind::UpgradeTimeout(String, u32)
UpgradeTimeout(s, secs) == Outcome("UpgradeTimeout", s, secs)

\* The version a rollout acts on: the one the manifest declares, else the one
\* the executor reports as installed (fallback-version inference), else none.
HasVersion(declared, installed) == declared \/ installed

\* Modes that need a concrete version to act on.
RequiresVersion(m) == m # "Rollback"

RollbackRequestedAlways(m) == TRUE

\* Modes that ask for an automatic rollback after a failed or timed out upgrade.
RollbackRequested(m) == m = "UpgradeWaitMaybeRollback"

\* The four classes the final report distinguishes.
ReportClass(k) ==
    CASE k = "Succeeded" -> "succeeded"
      [] k = "UpgradeTimeout" -> "timed out"
      [] k = "HelmUpgradeFailure" -> "upgrade failed"
      [] k \in {"MissingRollingVersion", "ValidationError"} -> "skipped"

RECURSIVE SumOver(_, _)
SumOver(f, S) ==
    IF S = {} THEN 0
    ELSE LET x == CHOOSE y \in S : TRUE IN f[x] + SumOver(f, S \ {x})

ElapsedGlobal(s) == SumOver(elapsed, Services)

\* Seconds (in poll intervals) service s has waited for its own rollout.
Elapsed(s) == elapsed[s]

Unstarted(s) ==
    /\ state[s] = "Pending"
    /\ s \notin running
    /\ report[s] = <<>>

CanAcquireUnbounded(s) == Unstarted(s)

CanAcquireFailFast(s) ==
    /\ Unstarted(s)
    /\ Cardinality(running) < poolSize
    /\ \A t \in Services : \A i \in DOMAIN report[t] :
           report[t][i].kind = "Succeeded"

\* A queued job is picked up when a pool worker is idle; nothing else admits
\* or refuses it.
CanAcquire(s) ==
    /\ Unstarted(s)
    /\ Cardinality(running) < poolSize

\* The worker's job ends: its result goes to the report, its worker is freed.
Deliver(s, oc) ==
    /\ report' = [report EXCEPT ![s] = Append(@, oc)]
    /\ running' = running \ {s}

\* A pool worker takes the queued job of service s.
Acquire(s) ==
    /\ UNCHANGED <<verifyVars, secretVars, graphVars>>
    /\ CanAcquire(s)
    /\ running' = running \cup {s}
    /\ UNCHANGED <<mode, poolSize, state, input, helm, elapsed, outcome, report>>

\* Validation / reconciliation failed: the service is skipped.
PrepareInvalid(s) ==
    /\ UNCHANGED <<verifyVars, secretVars, graphVars>>
    /\ s \in running /\ state[s] = "Pending" /\ ~input[s].read
    /\ input' = [input EXCEPT ![s] =
                    [read |-> TRUE, valid |-> FALSE, hasVersion |-> FALSE,
                     budget |-> 0]]
    /\ outcome' = [outcome EXCEPT ![s] = Outcome("ValidationError", s, 0)]
    /\ Deliver(s, Outcome("ValidationError", s, 0))
    /\ UNCHANGED <<mode, poolSize, state, helm, elapsed>>

\* Neither a declared nor an installed version: MissingRollingVersion, for
\* this service only.
PrepareMissingVersion(s) ==
    /\ UNCHANGED <<verifyVars, secretVars, graphVars>>
    /\ s \in running /\ state[s] = "Pending" /\ ~input[s].read
    /\ RequiresVersion(mode)
    /\ input' = [input EXCEPT ![s] =
                    [read |-> TRUE, valid |-> TRUE,
                     hasVersion |-> HasVersion(FALSE, FALSE), budget |-> 0]]
    /\ outcome' = [outcome EXCEPT ![s] = MissingRollingVersion(s)]
    /\ Deliver(s, MissingRollingVersion(s))
    /\ UNCHANGED <<mode, poolSize, state, helm, elapsed>>

\* The manifest is valid and a version is known, or the mode needs none:
\* the unit is dispatched with its wait budget.
Dispatch(s) ==
    /\ UNCHANGED <<verifyVars, secretVars, graphVars>>
    /\ s \in running /\ state[s] = "Pending" /\ ~input[s].read
    /\ \E declared \in BOOLEAN, installed \in BOOLEAN, b \in 1..MaxBudget :
          /\ RequiresVersion(mode) => HasVersion(declared, installed)
          /\ input' = [input EXCEPT ![s] =
                          [read |-> TRUE, valid |-> TRUE,
                           hasVersion |-> HasVersion(declared, installed),
                           budget |-> b]]
    /\ state' = [state EXCEPT ![s] = "Dispatched"]
    /\ UNCHANGED <<mode, poolSize, running, helm, elapsed, outcome, report>>

\* The executor (helm) is invoked; it accepts or rejects the request.
Invoke(s) ==
    /\ UNCHANGED <<verifyVars, secretVars, graphVars>>
    /\ s \in running /\ state[s] = "Dispatched"
    /\ \E h \in {"accepted", "rejected"} : helm' = [helm EXCEPT ![s] = h]
    /\ state' = [state EXCEPT ![s] = "WaitingForRollout"]
    /\ UNCHANGED <<mode, poolSize, running, input, elapsed, outcome, report>>

\* A terminal rollout state is entered with its outcome; the job ends here
\* unless the mode asks for a rollback of a failed or timed out upgrade.
Finish(s, st, oc) ==
    /\ state' = [state EXCEPT ![s] = st]
    /\ outcome' = [outcome EXCEPT ![s] = oc]
    /\ IF st \in {"Failed", "TimedOut"} /\ RollbackRequested(mode)
       THEN UNCHANGED <<running, report>>
       ELSE Deliver(s, oc)

\* The helm invocation itself failed.
HelmReject(s) ==
    /\ UNCHANGED <<verifyVars, secretVars, graphVars>>
    /\ s \in running /\ state[s] = "WaitingForRollout" /\ helm[s] = "rejected"
    /\ Finish(s, "Failed", HelmUpgradeFailure(s))
    /\ UNCHANGED <<mode, poolSize, input, helm, elapsed>>

\* One poll of the rollout status within the budget: not ready yet.
PollNotReady(s) ==
    /\ UNCHANGED <<verifyVars, secretVars, graphVars>>
    /\ s \in running /\ state[s] = "WaitingForRollout" /\ helm[s] = "accepted"
    /\ Elapsed(s) < input[s].budget
    /\ elapsed' = [elapsed EXCEPT ![s] = @ + 1]
    /\ UNCHANGED <<mode, poolSize, state, running, input, helm, outcome, report>>

\* One poll of the rollout status within the budget: the rollout is complete.
PollReady(s) ==
    /\ UNCHANGED <<verifyVars, secretVars, graphVars>>
    /\ s \in running /\ state[s] = "WaitingForRollout" /\ helm[s] = "accepted"
    /\ Elapsed(s) < input[s].budget
    /\ Finish(s, "Succeeded", Outcome("Succeeded", s, Elapsed(s)))
    /\ UNCHANGED <<mode, poolSize, input, helm, elapsed>>

\* The budget is used up: UpgradeTimeout(service, elapsed seconds).
Timeout(s) ==
    /\ UNCHANGED <<verifyVars, secretVars, graphVars>>
    /\ s \in running /\ state[s] = "WaitingForRollout" /\ helm[s] = "accepted"
    /\ Elapsed(s) >= input[s].budget
    /\ Finish(s, "TimedOut", UpgradeTimeout(s, Elapsed(s)))
    /\ UNCHANGED <<mode, poolSize, input, helm, elapsed>>

\* The mode asked for it: the failed or timed out upgrade is rolled back.
Rollback(s) ==
    /\ UNCHANGED <<verifyVars, secretVars, graphVars>>
    /\ s \in running /\ state[s] \in {"Failed", "TimedOut"}
    /\ RollbackRequested(mode)
    /\ state' = [state EXCEPT ![s] = "RolledBack"]
    /\ Deliver(s, outcome[s])
    /\ UNCHANGED <<mode, poolSize, input, helm, elapsed, outcome>>

Worker(s) ==
    \/ Acquire(s)
    \/ PrepareInvalid(s)
    \/ PrepareMissingVersion(s)
    \/ Dispatch(s)
    \/ Invoke(s)
    \/ HelmReject(s)
    \/ PollNotReady(s)
    \/ PollReady(s)
    \/ Timeout(s)
    \/ Rollback(s)

VerifyIdle ==
    /\ mf = DefaultManifest
    /\ edits = 0
    /\ vres = NotRun

Init ==
    /\ mode \in UpgradeMode
    /\ poolSize \in 1..MaxPool
    /\ state = [s \in Services |-> "Pending"]
    /\ running = {}
    /\ input = [s \in Services |-> NoInput]
    /\ helm = [s \in Services |-> "none"]
    /\ elapsed = [s \in Services |-> 0]
    /\ outcome = [s \in Services |-> NoOutcome]
    /\ report = [s \in Services |-> <<>>]
    /\ VerifyIdle
    /\ SecretsIdle
    /\ GraphIdle

Next ==
    \/ \E s \in Services : Acquire(s)
    \/ \E s \in Services : PrepareInvalid(s)
    \/ \E s \in Services : PrepareMissingVersion(s)
    \/ \E s \in Services : Dispatch(s)
    \/ \E s \in Services : Invoke(s)
    \/ \E s \in Services : HelmReject(s)
    \/ \E s \in Services : PollNotReady(s)
    \/ \E s \in Services : PollReady(s)
    \/ \E s \in Services : Timeout(s)
    \/ \E s \in Services : Rollback(s)

Spec == Init /\ [][Next]_vars

\* Every pool worker keeps running the job it took, and an idle worker takes
\* a queued job: no job is starved or abandoned.
FairSpec == Spec /\ \A s \in Services : WF_vars(Worker(s))

(***************************************************************************)
(* Validator: a manifest is populated, then verified                       *)
(***************************************************************************)

OrchIdle ==
    /\ mode = "DiffOnly"
    /\ poolSize = 1
    /\ state = [s \in Services |-> "Pending"]
    /\ running = {}
    /\ input = [s \in Services |-> NoInput]
    /\ helm = [s \in Services |-> "none"]
    /\ elapsed = [s \in Services |-> 0]
    /\ outcome = [s \in Services |-> NoOutcome]
    /\ report = [s \in Services |-> <<>>]

VerifyInit ==
    /\ mf \in BaseManifests
    /\ edits = 0
    /\ vres = NotRun
    /\ OrchIdle
    /\ SecretsIdle
    /\ GraphIdle

\* Deserialisation, merge or implicits set one field of the manifest.
Assign ==
    /\ vres = NotRun
    /\ edits < MaxEdits
    /\ \E f \in Fields : \E v \in FieldDomain[f] :
          /\ v # mf[f]
          /\ mf' = [mf EXCEPT ![f] = v]
    /\ edits' = edits + 1
    /\ UNCHANGED <<vres, orchVars, secretVars, graphVars>>

\* mf.verify(&conf, &region)
RunVerify ==
    /\ vres = NotRun
    /\ vres' = Verify(mf)
    /\ UNCHANGED <<mf, edits, orchVars, secretVars, graphVars>>

VerifyNext == Assign \/ RunVerify

VerifySpec == VerifyInit /\ [][VerifyNext]_vars

(***************************************************************************)
(* Secret store client: reads and a listing                                *)
(***************************************************************************)

\* The keys listed for a path: secrets and sub-folders.
ListEntries == {<<"k">>, <<"f", "/">>, <<"/">>, <<>>, <<"/", "k">>}

RECURSIVE SeqsUpTo(_, _)
SeqsUpTo(S, n) ==
    IF n = 0 THEN {<<>>}
    ELSE LET shorter == SeqsUpTo(S, n - 1)
         IN shorter \cup {Append(q, e) : q \in shorter, e \in S}

ListResponses == {Unreachable, NoKeys} \cup {Keys(ks) : ks \in SeqsUpTo(ListEntries, MaxKeys)}

ServicePath == <<VaultFolder, "web">>

VaultInit ==
    /\ vmode \in {"Standard", "Mocked"}
    /\ listing \in ListResponses
    /\ store = EmptyMap
    /\ reads = <<>>
    /\ requests = 0
    /\ rres = NotCalled
    /\ lres = NotCalled
    /\ listed = <<>>
    /\ eres = NotCalled
    /\ sm = EmptySecretsManifest
    /\ decls = 0
    /\ calls = 0
    /\ sres = NotCalled
    /\ OrchIdle
    /\ VerifyIdle
    /\ GraphIdle

\* client.read(key): in standard mode the store answers for the key, and
\* answers the same whenever the key is read again.
Read ==
    /\ Len(reads) < MaxReads
    /\ \E k \in EnvKeys \cup FileKeys :
         LET key == VKey(ServicePath, k) IN
         \E e \in (IF vmode = "Mocked" \/ key \in DOMAIN store
                   THEN {EntryAt(store, key)} ELSE StoreEntries) :
            /\ rres' = VaultRead(vmode, key, e)
            /\ reads' = Append(reads, key)
            /\ requests' = requests + ReadRequests(vmode)
            /\ store' = IF vmode = "Mocked" THEN store ELSE Put(store, key, e)
    /\ UNCHANGED <<sm, decls, vmode, calls, sres, listing, lres, listed, eres,
                   orchVars, verifyVars, graphVars>>

\* client.list(path)
List ==
    /\ lres = NotCalled
    /\ lres' = VaultList(ServicePath, listing)
    /\ requests' = requests + 1
    /\ listed' = Append(listed, ServicePath)
    /\ UNCHANGED <<sm, decls, vmode, store, reads, calls, sres, rres, listing, eres,
                   orchVars, verifyVars, graphVars>>

VaultNext == Read \/ List

VaultSpec == VaultInit /\ [][VaultNext]_vars

(***************************************************************************)
(* Secret reconciliation: declarations, then Manifest::secrets             *)
(***************************************************************************)

SecretsInit ==
    /\ vmode \in {"Standard", "Mocked"}
    /\ sm = EmptySecretsManifest
    /\ decls = 0
    /\ store = EmptyMap
    /\ reads = <<>>
    /\ requests = 0
    /\ calls = 0
    /\ sres = NotCalled
    /\ rres = NotCalled
    /\ listing = Unreachable
    /\ lres = NotCalled
    /\ listed = <<>>
    /\ eres = NotCalled
    /\ OrchIdle
    /\ VerifyIdle
    /\ GraphIdle

\* The manifest m with key k of its c-th env container set to entry e.
SetEnv(m, c, k, e) ==
    IF c = 1 THEN [m EXCEPT !.env = Put(@, k, e)]
    ELSE IF c = 2 THEN [m EXCEPT !.sidecars[1] = Put(@, k, e)]
    ELSE IF c = 3 THEN [m EXCEPT !.workers[1] = Put(@, k, e)]
    ELSE [m EXCEPT !.cronJobs[1] = Put(@, k, e)]

\* The manifest files declare an env entry, a secret file or a vault override.
Declare ==
    /\ calls = 0
    /\ decls < MaxDecls
    /\ \/ \E c \in 1..4, k \in EnvKeys, e \in EnvEntries :
            /\ Get(GetEnvVars(sm)[c], k) # <<e>>
            /\ sm' = SetEnv(sm, c, k, e)
       \/ \E k \in FileKeys, v \in FileValues :
            /\ Get(sm.secretFiles, k) # <<v>>
            /\ sm' = [sm EXCEPT !.secretFiles = Put(@, k, v)]
       \/ \E o \in VaultOverrides \ {sm.vault} :
            sm' = [sm EXCEPT !.vault = o]
    /\ decls' = decls + 1
    /\ UNCHANGED <<vmode, store, reads, requests, calls, sres, rres, listing, lres,
                   listed, eres, orchVars, verifyVars, graphVars>>

\* mf.secrets(&client, &vc): the store answers for the paths read, and
\* answers the same whenever a path is read again.
Resolve ==
    /\ calls < MaxCalls
    /\ LET fresh == IF vmode = "Mocked" THEN {} ELSE NeededKeys(sm) \ DOMAIN store IN
       \E ext \in [fresh -> StoreEntries] :
          LET st == ext @@ store
              out == Secrets(sm, vmode, st)
              seen == DOMAIN store \cup {out.reads[i] : i \in 1..Len(out.reads)}
          IN /\ sm' = out.m
             /\ sres' = out.res
             /\ reads' = reads \o out.reads
             /\ requests' = requests + Len(out.reads) * ReadRequests(vmode)
             /\ store' = IF vmode = "Mocked" THEN store ELSE [key \in seen |-> st[key]]
    /\ calls' = calls + 1
    /\ UNCHANGED <<decls, vmode, rres, listing, lres, listed, eres,
                   orchVars, verifyVars, graphVars>>

SecretsNext == Declare \/ Resolve

SecretsSpec == SecretsInit /\ [][SecretsNext]_vars

(***************************************************************************)
(* Pre-flight check: declarations, then Manifest::verify_secrets_exist     *)
(***************************************************************************)

\* What the store lists of a key: nothing, the secret, or a sub-folder.
Listed == {"none", "key", "folder"}

\* The keys of a list response, in key order.
RECURSIVE ListedKeys(_, _)
ListedKeys(l, i) ==
    IF i > Len(KeySeq) THEN <<>>
    ELSE (IF l[KeySeq[i]] = "key" THEN <<<<KeySeq[i]>>>>
          ELSE IF l[KeySeq[i]] = "folder" THEN <<<<KeySeq[i], "/">>>>
          ELSE <<>>) \o ListedKeys(l, i + 1)

PathListings ==
    {Unreachable, NoKeys}
        \cup {Keys(ListedKeys(l, 1)) : l \in [EnvKeys \cup FileKeys -> Listed]}

\* mf.verify_secrets_exist(&vc)
Preflight ==
    /\ eres = NotCalled
    /\ \E token \in BOOLEAN, resp \in PathListings :
          LET out == VerifySecretsExist(sm, token, resp) IN
          /\ eres' = out.res
          /\ lres' = out.lres
          /\ listed' = listed \o out.listed
          /\ requests' = requests + Len(out.listed)
          /\ listing' = IF out.listed = <<>> THEN listing ELSE resp
    /\ UNCHANGED <<sm, decls, vmode, store, reads, calls, sres, rres,
                   orchVars, verifyVars, graphVars>>

PreflightNext == Declare \/ Preflight

PreflightSpec == SecretsInit /\ [][PreflightNext]_vars

(***************************************************************************)
(* Dependency graph: dependencies are declared, then the graph is built    *)
(***************************************************************************)

GraphInit ==
    /\ GraphIdle
    /\ OrchIdle
    /\ VerifyIdle
    /\ SecretsIdle

\* A manifest declares a dependency on a service (on itself too).
AddDependency ==
    /\ gres = NotCalled
    /\ Cardinality(depends) < MaxDeps
    /\ \E a \in Services, b \in Services :
          /\ <<a, b>> \notin depends
          /\ depends' = depends \cup {<<a, b>>}
    /\ UNCHANGED <<gres, orchVars, verifyVars, secretVars>>

\* build(&manifests)
BuildGraph ==
    /\ gres = NotCalled
    /\ gres' = Build(Services, depends)
    /\ UNCHANGED <<depends, orchVars, verifyVars, secretVars>>

GraphNext == AddDependency \/ BuildGraph

GraphSpec == GraphInit /\ [][GraphNext]_vars

(***************************************************************************)
(* Orchestrator properties                                                 *)
(***************************************************************************)

InFlight == {s \in Services : state[s] \in {"Dispatched", "WaitingForRollout"}}

\* Service s has not been given a pool worker yet.
Queued(s) == state[s] = "Pending" /\ s \notin running /\ ~input[s].read

PoolFull == Cardinality(running) >= poolSize

\* Nothing but pool admission holds service s back.
NotBlocked(s) == ENABLED Worker(s) \/ (Queued(s) /\ PoolFull)

\* C1: at every instant at most poolSize services are Dispatched or
\* WaitingForRollout; a service without a pool slot has no outcome (it waits,
\* it is not failed), and it is admitted as soon as a slot is free.
C1_PoolBoundsDispatch ==
    /\ Cardinality(InFlight) <= poolSize
    /\ \A s \in Services :
          Queued(s) =>
             /\ outcome[s] = NoOutcome
             /\ report[s] = <<>>
             /\ (~PoolFull => ENABLED Acquire(s))
             /\ (PoolFull => ~ENABLED Worker(s))

\* The pool is exhausted by in-flight rollouts while another service waits.
C1_Witness ==
    /\ Cardinality(InFlight) = poolSize
    /\ \E s \in Services : Queued(s)

\* The outcome service s has on its own: a function of what its own worker
\* read, of its own helm invocation and of its own waiting time.
OwnOutcome(s) ==
    IF ~input[s].valid THEN Outcome("ValidationError", s, 0)
    ELSE IF mode # "Rollback" /\ ~input[s].hasVersion
         THEN Outcome("MissingRollingVersion", s, 0)
    ELSE IF helm[s] = "rejected" THEN Outcome("HelmUpgradeFailure", s, 0)
    ELSE IF elapsed[s] >= input[s].budget
         THEN Outcome("UpgradeTimeout", s, input[s].budget)
    ELSE Outcome("Succeeded", s, elapsed[s])

\* C2: whatever the other services did (timed out, failed), the outcome of a
\* service is the one its own inputs give, every reported outcome is that
\* one, and an unfinished service is held back by pool admission alone.
C2_OutcomesIndependent ==
    \A s \in Services :
       /\ outcome[s] # NoOutcome => outcome[s] = OwnOutcome(s)
       /\ \A i \in DOMAIN report[s] : report[s][i] = OwnOutcome(s)
       /\ report[s] = <<>> => NotBlocked(s)

\* One service has timed out, one has failed in helm, a third is still
\* waiting for its rollout.
C2_Witness ==
    \E s, t, u \in Services :
       /\ report[s] # <<>> /\ report[s][1].kind = "UpgradeTimeout"
       /\ report[t] # <<>> /\ report[t][1].kind = "HelmUpgradeFailure"
       /\ state[u] = "WaitingForRollout" /\ helm[u] = "accepted"

AllowedTransitions ==
    {<<"Pending", "Dispatched">>,
     <<"Dispatched", "WaitingForRollout">>,
     <<"WaitingForRollout", "Succeeded">>,
     <<"WaitingForRollout", "TimedOut">>,
     <<"WaitingForRollout", "Failed">>,
     <<"Failed", "RolledBack">>,
     <<"TimedOut", "RolledBack">>}

Rank(st) ==
    CASE st = "Pending" -> 0
      [] st = "Dispatched" -> 1
      [] st = "WaitingForRollout" -> 2
      [] st \in {"Succeeded", "TimedOut", "Failed"} -> 3
      [] st = "RolledBack" -> 4

\* C3: a rollout state changes only along Pending -> Dispatched ->
\* WaitingForRollout -> {Succeeded, TimedOut, Failed}; RolledBack is entered
\* only from Failed or TimedOut and only in the mode that asks for automatic
\* rollback; Succeeded and RolledBack are never left; no state is re-entered.
C3_RolloutStateMachine ==
    [][\A s \in Services :
          state'[s] # state[s] =>
             /\ <<state[s], state'[s]>> \in AllowedTransitions
             /\ Rank(state'[s]) > Rank(state[s])
             /\ state[s] \notin {"Succeeded", "RolledBack"}
             /\ (state'[s] = "RolledBack" => mode = "UpgradeWaitMaybeRollback")]_vars

\* A timed out upgrade and a failed one have both been rolled back.
C3_Witness ==
    \E s, t \in Services :
       /\ state[s] = "RolledBack" /\ outcome[s].kind = "UpgradeTimeout"
       /\ state[t] = "RolledBack" /\ outcome[t].kind = "HelmUpgradeFailure"

\* The report holds one outcome of service s, of a class that matches where
\* its rollout ended.
ReportedOnce(s) ==
    /\ Len(report[s]) = 1
    /\ report[s][1].name = s
    /\ report[s][1].kind \in OutcomeKind
    /\ LET class == ReportClass(report[s][1].kind) IN
          /\ class = "succeeded" <=> state[s] = "Succeeded"
          /\ class = "timed out" <=>
                (state[s] \in {"TimedOut", "RolledBack"} /\ helm[s] = "accepted")
          /\ class = "upgrade failed" <=>
                (state[s] \in {"Failed", "RolledBack"} /\ helm[s] = "rejected")
          /\ class = "skipped" <=> state[s] = "Pending"

\* C4: every service reaches the end of its job: from some point on the
\* report holds exactly one outcome per service, classified as succeeded,
\* timed out, upgrade failed or skipped, and every service that was
\* dispatched is in a terminal state (ReportedOnce leaves no other state to
\* a dispatched service); the report never holds two outcomes of a service.
C4_AllReachTerminalAndReported ==
    /\ <>[](\A s \in Services : ReportedOnce(s))
    /\ [](\A s \in Services : Len(report[s]) <= 1)

\* A finished run whose report holds a success, a timeout and a skip.
C4_Witness ==
    /\ \A s \in Services : ReportedOnce(s)
    /\ \E s, t, u \in Services :
          /\ ReportClass(report[s][1].kind) = "succeeded"
          /\ ReportClass(report[t][1].kind) = "timed out"
          /\ ReportClass(report[u][1].kind) = "skipped"

NoVersion(s) ==
    /\ input[s].read /\ input[s].valid
    /\ ~input[s].hasVersion

\* C5: in a mode that requires a version, a service with neither a declared
\* nor an installed version ends in MissingRollingVersion(itself) without
\* ever being dispatched or handed to helm; no other service gets that
\* error, and the siblings are held back by nothing but pool admission.
C5_MissingVersionIsLocal ==
    \A s \in Services :
       /\ (RequiresVersion(mode) /\ NoVersion(s)) =>
             /\ outcome[s] = MissingRollingVersion(s)
             /\ report[s] = <<MissingRollingVersion(s)>>
             /\ state[s] = "Pending"
             /\ helm[s] = "none"
             /\ \A t \in Services \ {s} : report[t] = <<>> => NotBlocked(t)
       /\ outcome[s].kind = "MissingRollingVersion" =>
             (RequiresVersion(mode) /\ NoVersion(s) /\ outcome[s].name = s)

\* One service lacks a version, and a sibling picked up after that has
\* completed its rollout.
C5_Witness ==
    \E s, t \in Services :
       /\ report[s] = <<MissingRollingVersion(s)>>
       /\ state[t] = "Succeeded"
       /\ poolSize = 1

\* C6: a wait that used up its budget ends in UpgradeTimeout(service, elapsed
\* seconds) and cannot end otherwise; it is rolled back only if the mode
\* asks for it; a rejected helm invocation ends in HelmUpgradeFailure and a
\* timeout is never reported as HelmUpgradeFailure, nor the reverse.
C6_TimeoutVersusHelmFailure ==
    \A s \in Services :
       /\ (state[s] = "WaitingForRollout" /\ helm[s] = "accepted"
             /\ elapsed[s] >= input[s].budget) =>
             (ENABLED Timeout(s) /\ ~ENABLED PollReady(s) /\ ~ENABLED PollNotReady(s))
       /\ state[s] = "TimedOut" =>
             /\ outcome[s] = Outcome("UpgradeTimeout", s, elapsed[s])
             /\ elapsed[s] >= input[s].budget
       /\ outcome[s].kind = "UpgradeTimeout" =>
             /\ helm[s] = "accepted"
             /\ state[s] \in {"TimedOut", "RolledBack"}
             /\ outcome[s].name = s /\ outcome[s].secs = elapsed[s]
       /\ (helm[s] = "rejected" /\ outcome[s] # NoOutcome) =>
             outcome[s] = Outcome("HelmUpgradeFailure", s, 0)
       /\ outcome[s].kind = "HelmUpgradeFailure" =>
             (helm[s] = "rejected" /\ state[s] \in {"Failed", "RolledBack"})
       /\ state[s] = "RolledBack" => mode = "UpgradeWaitMaybeRollback"
       /\ (state[s] \in {"TimedOut", "Failed"} /\ mode # "UpgradeWaitMaybeRollback") =>
             (s \notin running /\ ~ENABLED Rollback(s))

\* A timeout reported, and left as it is, in a mode without rollback, next to
\* a helm failure.
C6_Witness ==
    \E s, t \in Services :
       /\ mode = "UpgradeWait"
       /\ state[s] = "TimedOut" /\ report[s] = <<Outcome("UpgradeTimeout", s, MaxBudget)>>
       /\ state[t] = "Failed" /\ report[t] = <<Outcome("HelmUpgradeFailure", t, 0)>>

(***************************************************************************)
(* Validator properties                                                    *)
(***************************************************************************)

Verified == vres.kind # "NotRun"

\* name matches ^[0-9a-z-]{1,50}$ and neither starts nor ends with a dash
WellFormedName(n) ==
    /\ Len(n) \in 1..50
    /\ \A i \in 1..Len(n) : n[i] \in Digit \cup Lower \cup {"-"}
    /\ n[1] # "-" /\ n[Len(n)] # "-"

C8_ZeroReplicasNeverPass ==
    (Verified /\ mf.replicaCount = <<0>>) => vres.kind # "Ok"

\* C8 amended: verify never returns Ok for a manifest that is not external
\* and whose replicaCount is 0, whatever its other fields are; it returns a
\* failure whenever the region is set (with an empty region the assertion on
\* it aborts the call).
C8_ZeroReplicasFailUnlessExternal ==
    (Verified /\ ~mf.external /\ mf.replicaCount = <<0>>) =>
       /\ vres.kind # "Ok"
       /\ (mf.region # "" => vres.kind = "Err")

\* The replica count check itself has rejected a manifest.
C8_Witness ==
    /\ ~mf.external
    /\ mf.replicaCount = <<0>>
    /\ vres.kind = "Err"
    /\ vres.msg = <<Lit("Need replicaCount to be at least 1")>>

NoProbe(m) == m.health = "None" /\ m.readinessProbe = "None"

HealthCheckMessage(m) == <<m.name, Lit(" has an httpPort but no health check")>>

\* A message names the service when the manifest's name is interpolated in it.
NamesService(msg, m) == \E i \in 1..Len(msg) : msg[i] = m.name

\* The result the same manifest gets once it declares a health check.
WithHealth(m) == Verify([m EXCEPT !.health = "Some"])

\* C9 as claimed: for a manifest that is not external, httpPort with neither
\* health nor readinessProbe makes verify fail with the message that names
\* the service and says "health check".
C9_HttpPortWithoutProbeSaysHealthCheck ==
    (Verified /\ ~mf.external /\ mf.httpPort # "None" /\ NoProbe(mf)) =>
       /\ vres.kind = "Err"
       /\ vres.msg = HealthCheckMessage(mf)

\* C9 amended: for a manifest that is not external, httpPort with neither
\* health nor readinessProbe never passes verify, and when the manifest
\* passes every check that precedes the health check the failure is the
\* message that names the service and says "health check"; without httpPort
\* the absence of both probes changes nothing but a logged warning: verify
\* returns what it returns for the same manifest with a health check.
C9_HealthCheckRequiredForHttp ==
    /\ (Verified /\ ~mf.external /\ mf.httpPort # "None" /\ NoProbe(mf)) =>
          /\ vres.kind # "Ok"
          /\ (WithHealth(mf).check \in {"", "database", "redis"}
                /\ WithHealth(mf).kind # "Panic") =>
                /\ vres.kind = "Err"
                /\ vres.msg = HealthCheckMessage(mf)
                /\ NamesService(vres.msg, mf)
    /\ (Verified /\ ~mf.external /\ mf.httpPort = "None" /\ NoProbe(mf)) =>
          /\ vres.kind = WithHealth(mf).kind
          /\ vres.check = WithHealth(mf).check
          /\ vres.msg = WithHealth(mf).msg
          /\ vres.kind = "Ok" =>
                <<mf.name, Lit(" does not set a health check")>> \in vres.warns

\* An otherwise complete service with an http port and no probe is rejected
\* by the health check.
C9_Witness ==
    /\ ~mf.external
    /\ mf.httpPort = "Some" /\ NoProbe(mf)
    /\ vres.kind = "Err"
    /\ vres.msg = <<mf.name, Lit(" has an httpPort but no health check")>>

\* C10: verify does not pass a manifest, external or not, whose region is
\* not in its regions or whose name is not well formed: it returns the
\* region or name failure (or, region being empty, aborts on its assertion);
\* so a manifest that passes has its region in regions and a well-formed name.
C10_RegionAndNameAlwaysChecked ==
    /\ (Verified /\ (mf.region \notin mf.regions \/ ~WellFormedName(mf.name))) =>
          /\ vres.kind # "Ok"
          /\ (mf.region # "" => (vres.kind = "Err" /\ vres.check \in {"region", "name"}))
    /\ vres.kind = "Ok" => (mf.region \in mf.regions /\ WellFormedName(mf.name))

\* An external manifest with a 51 character name has been rejected.
C10_Witness ==
    /\ mf.external
    /\ mf.region \in mf.regions
    /\ Len(mf.name) = NameMaxLen + 1
    /\ vres.kind = "Err" /\ vres.check = "name"

\* The mandatory fields of the validator and the value each has when absent.
MandatoryFields ==
    {"resources", "image", "imageSize", "chart", "namespace", "environment", "regions"}

Absent(f) ==
    IF f = "regions" THEN {}
    ELSE IF f \in {"namespace", "environment"} THEN ""
    ELSE "None"

Without(m, f) == [m EXCEPT ![f] = Absent(f)]

\* The field names (case ignored) that occur as words in a literal part of a
\* failure message of verify.
WordsOf(part) ==
    CASE part = Lit("Resources is mandatory") -> {"resources"}
      [] part = Lit("Image should be set at this point") -> {"image"}
      [] part = Lit("imageSize must be set at this point") -> {"imageSize"}
      [] part = Lit("chart must be set at this point") -> {"chart"}
      [] part = Lit("namespace must be set at this point") -> {"namespace"}
      [] part = Lit("No regions specified for ") -> {"regions"}
      [] part = Lit(" ended up with an empty environment") -> {"environment"}
      [] part = Lit(" ended up with an empty namespace") -> {"namespace"}
      [] part = Lit("Unsupported region ") -> {"region"}
      [] part = Lit("Missing metadata for ") -> {"metadata"}
      [] part = Lit("Need replicaCount to be at least 1") -> {"replicaCount"}
      [] part = Lit(" has an httpPort but no health check") -> {"httpPort"}
      [] part = Lit("Can not have a gate configuration without a kong one") -> {"gate", "kong"}
      [] part = Lit("[Migration plan] publiclyAccessible and gate.public must be equal")
            -> {"publiclyAccessible", "gate"}
      [] OTHER -> {}

NamesField(msg, f) == \E i \in 1..Len(msg) : f \in WordsOf(msg[i])

\* Every per-element and per-structure sub-check (x.verify()) of m passes.
SubChecksPass(m) ==
    /\ \A i \in 1..Len(VecFields) : AllElementsOk(m[VecFields[i]])
    /\ \A f \in {"dataHandling", "metadata", "version", "resources", "configs",
                 "rollingUpdate", "env", "database", "redis"} : m[f] # "Bad"

MandatoryPresent(m) == \A f \in MandatoryFields : m[f] # Absent(f)

\* C11 as claimed: for a manifest that is not external, verify succeeds if
\* and only if every sub-check passes and every mandatory field is present,
\* and removing one mandatory field from a passing manifest gives a failure
\* whose message names that field.
C11_PassIffSubChecksAndMandatory ==
    (Verified /\ ~mf.external) =>
       /\ vres.kind = "Ok" <=> (SubChecksPass(mf) /\ MandatoryPresent(mf))
       /\ vres.kind = "Ok" =>
             \A f \in MandatoryFields :
                /\ Verify(Without(mf, f)).kind = "Err"
                /\ NamesField(Verify(Without(mf, f)).msg, f)

\* C11 amended: for a manifest that is not external, verify succeeds only if
\* every sub-check passes and every mandatory field is present; removing
\* resources, image, imageSize, chart, namespace or environment from a
\* passing manifest gives a failure whose message names that field, and
\* emptying regions gives the region-membership failure, which names the
\* region and the service.
C11_PassOnlyIfSubChecksAndMandatory ==
    (Verified /\ ~mf.external /\ vres.kind = "Ok") =>
       /\ SubChecksPass(mf) /\ MandatoryPresent(mf)
       /\ \A f \in MandatoryFields \ {"regions"} :
             /\ Verify(Without(mf, f)).kind = "Err"
             /\ NamesField(Verify(Without(mf, f)).msg, f)
       /\ Verify(Without(mf, "regions")) =
             Err("region", <<Lit("Unsupported region "), Lit(mf.region), Lit(" for service "), mf.name>>, {})

\* A service with a worker and a sidecar, every mandatory field set, passed.
C11_Witness ==
    /\ vres.kind = "Ok"
    /\ ~mf.external
    /\ mf.workers # <<>>
    /\ mf.sidecars # <<>>
    /\ MandatoryPresent(mf)


\* C12: whatever fields of the manifest are unset, verify returns success or
\* a failure value; it never aborts.
C12_VerifyAlwaysReturns ==
    Verified => vres.kind \in {"Ok", "Err"}

\* A failure whose text comes from the verify of a sub-structure (resources,
\* metadata, an element of a Vec, ...), not from a bail! of Manifest::verify.
DelegatedFailure(r) ==
    \E f \in Fields \cup {"versioningScheme"} : r.msg = <<Lit(f)>>

\* C13: every failure that a check of Manifest::verify returns carries a
\* reason that names the offending service.
C13_EveryFailureNamesService ==
    (Verified /\ vres.kind = "Err" /\ ~DelegatedFailure(vres)) =>
        NamesService(vres.msg, mf)


\* The least of a non-empty set of numbers.
Least(S) == CHOOSE x \in S : \A y \in S : x <= y

GateMisconfigured(m) ==
    m.gate # "None" /\ (m.kong = "None" \/ (m.gate = "Public") # m.publiclyAccessible)

InternalFieldUnset(m) ==
    \/ m.image = "None" \/ m.imageSize = "None" \/ m.chart = "None"
    \/ m.namespace = "" \/ m.regions = {} \/ m.environment = ""

\* The places, in the sequence of C22 as claimed, of the checks m violates
\* (place 3, the external skip, when m is external).
ClaimedViolations(m) ==
    {i \in 1..11 :
        \/ i = 1 /\ m.region \notin m.regions
        \/ i = 2 /\ ~WellFormedName(m.name)
        \/ i = 3 /\ m.external
        \/ i = 4 /\ m.version = "Bad"
        \/ i = 5 /\ GateMisconfigured(m)
        \/ i = 6 /\ m.resources # "Ok"
        \/ i = 7 /\ (m.configs = "Bad" \/ \E j \in 1..Len(VecFields) :
                                            \E x \in 1..Len(m[VecFields[j]]) :
                                               m[VecFields[j]][x] = "Bad")
        \/ i = 8 /\ (m.replicaCount \in {<<>>, <<0>>} \/ m.rollingUpdate = "Bad")
        \/ i = 9 /\ InternalFieldUnset(m)
        \/ i = 10 /\ (m.httpPort # "None" /\ NoProbe(m))
        \/ i = 11 /\ (m.database = "Bad" \/ m.redis = "Bad")}

\* The place in that sequence of the check that decided the result r of m;
\* 0 when the check is none of the sequence, 12 when every check passed.
ClaimedPlace(r, m) ==
    CASE r.kind = "Ok" -> IF m.external THEN 3 ELSE 12
      [] r.check = "region" -> 1
      [] r.check = "name" -> 2
      [] r.check = "version" -> 4
      [] r.check = "gate" -> 5
      [] r.check = "resources" -> 6
      [] r.check = "elements" -> 7
      [] r.check \in {"replicaCount", "rollingUpdate"} -> 8
      [] r.check = "internal" -> 9
      [] r.check = "health" -> 10
      [] r.check \in {"database", "redis"} -> 11
      [] OTHER -> 0

Violations(m) ==
    {i \in 1..15 :
        \/ i = 1 /\ m.region \notin m.regions
        \/ i = 2 /\ ~WellFormedName(m.name)
        \/ i = 3 /\ m.dataHandling = "Bad"
        \/ i = 4 /\ m.metadata # "Ok"
        \/ i = 5 /\ m.external
        \/ i = 6 /\ m.version = "Bad"
        \/ i = 7 /\ GateMisconfigured(m)
        \/ i = 8 /\ m.resources # "Ok"
        \/ i = 9 /\ (m.configs = "Bad" \/ \E j \in 1..Len(VecFields) :
                                            \E x \in 1..Len(m[VecFields[j]]) :
                                               m[VecFields[j]][x] = "Bad")
        \/ i = 10 /\ m.replicaCount \in {<<>>, <<0>>}
        \/ i = 11 /\ m.rollingUpdate = "Bad"
        \/ i = 12 /\ m.env = "Bad"
        \/ i = 13 /\ InternalFieldUnset(m)
        \/ i = 14 /\ (m.httpPort # "None" /\ NoProbe(m))
        \/ i = 15 /\ (m.database = "Bad" \/ m.redis = "Bad")}

Place(r, m) ==
    CASE r.kind = "Ok" -> IF m.external THEN 5 ELSE 16
      [] r.check = "region" -> 1
      [] r.check = "name" -> 2
      [] r.check = "dataHandling" -> 3
      [] r.check = "metadata" -> 4
      [] r.check = "version" -> 6
      [] r.check = "gate" -> 7
      [] r.check = "resources" -> 8
      [] r.check = "elements" -> 9
      [] r.check = "replicaCount" -> 10
      [] r.check = "rollingUpdate" -> 11
      [] r.check = "env" -> 12
      [] r.check = "internal" -> 13
      [] r.check = "health" -> 14
      [] r.check \in {"database", "redis"} -> 15
      [] OTHER -> 0

ReachesGateCheck(m) ==
    /\ m.region \in m.regions
    /\ WellFormedName(m.name)
    /\ m.dataHandling # "Bad"
    /\ m.metadata = "Ok"
    /\ ~m.external
    /\ m.version # "Bad"

\* C23: for a manifest that is not external, verify does not pass when gate
\* is set and kong is not, nor when gate is set and gate.public differs from
\* publiclyAccessible: it returns a failure (with an empty region it aborts
\* on the region assertion), the failure of the cross-field check when the
\* earlier checks pass; a manifest without gate is never rejected by the
\* cross-field check, whatever publiclyAccessible is.
C23_GateNeedsKongAndSameVisibility ==
    (Verified /\ ~mf.external) =>
        /\ (mf.gate # "None" /\ mf.kong = "None") =>
              /\ vres.kind # "Ok"
              /\ mf.region # "" => vres.kind = "Err"
              /\ ReachesGateCheck(mf) => vres.check = "gate"
        /\ (mf.gate # "None" /\ (mf.gate = "Public") # mf.publiclyAccessible) =>
              /\ vres.kind # "Ok"
              /\ mf.region # "" => vres.kind = "Err"
              /\ ReachesGateCheck(mf) => vres.check = "gate"
        /\ mf.gate = "None" => vres.check # "gate"

\* A service with kong, whose gate is public while publiclyAccessible is
\* false, was rejected by the cross-field check.
C23_Witness ==
    /\ ~mf.external
    /\ mf.gate = "Public" /\ mf.kong = "Some" /\ ~mf.publiclyAccessible
    /\ vres.kind = "Err" /\ vres.check = "gate"
    /\ vres.msg = <<Lit("[Migration plan] publiclyAccessible and gate.public must be equal")>>


\* The kind of error a failure of verify is: every bail! of Manifest::verify
\* builds a plain message error; a failure of a sub-structure is whatever
\* that sub-structure returns.
FailureKind(r) == IF DelegatedFailure(r) THEN "SubStructure" ELSE "Message"

\* Failures of user input: a name that is a dash, and no resources.
UserInputFailures ==
    {Verify([CompleteManifest EXCEPT !.name = <<"-">>]),
     Verify([CompleteManifest EXCEPT !.resources = "None"])}

\* C24: a failure of verify caused by an absent pipeline-guaranteed field
\* (image, imageSize, chart, namespace, regions, environment) differs in
\* kind, not only in its message, from the failures of user input such as a
\* bad name or missing resources.
C24_InternalFailureHasItsOwnKind ==
    (Verified /\ vres.kind = "Err" /\ vres.check = "internal") =>
        \A u \in UserInputFailures :
            u.kind = "Err" => FailureKind(vres) # FailureKind(u)


SecretsCalled == calls' = calls + 1

\* The keys some env container of m declares IN_VAULT / as template secrets.
VaultSourced(m) ==
    {k \in EnvKeys : \E c \in 1..Len(GetEnvVars(m)) :
        Get(GetEnvVars(m)[c], k) = <<FromVault>>}

TemplateSourced(m) ==
    {k \in EnvKeys : \E c \in 1..Len(GetEnvVars(m)) :
        k \in DOMAIN GetEnvVars(m)[c] /\ GetEnvVars(m)[c][k].kind = "Tmpl"}

\* C14: when a call of Manifest::secrets succeeded, the next call on the same
\* manifest against the unchanged store succeeds too and leaves the secrets
\* map and secretFiles as the first call left them.
C14_SecretsIdempotent ==
    [][(SecretsCalled /\ calls >= 1 /\ sres.ok) =>
          /\ sres'.ok
          /\ sm'.secrets = sm.secrets
          /\ sm'.secretFiles = sm.secretFiles]_vars

\* Two successful calls in standard mode resolved an env secret and a file.
C14_Witness ==
    /\ calls = 2 /\ sres.ok
    /\ vmode = "Standard"
    /\ DOMAIN sm.secrets # {}
    /\ VaultSourced(sm) # {}
    /\ \E f \in DOMAIN sm.secretFiles : VKey(get_vault_path(sm, VaultFolder), f) \in DOMAIN store

\* C15: a key that is vault-sourced in one env container and a template
\* secret in another makes Manifest::secrets fail, whatever the values are;
\* nothing is written to the secrets map.
C15_VaultAndTemplateConflictFails ==
    (calls >= 1 /\ VaultSourced(sm) \cap TemplateSourced(sm) # {}) =>
        /\ ~sres.ok
        /\ sm.secrets = EmptyMap

\* The conflict check itself rejected a key that is IN_VAULT in the main
\* env and templated in another container.
C15_Witness ==
    /\ calls >= 1
    /\ ~sres.ok /\ sres.err = "TemplatedAndVault"
    /\ \E k \in vault_secrets(sm.env) : k \in TemplateSourced(sm)


\* What the tests of the store client expect for the integers of the store.
DecimalString == (-2 :> <<"-", "2">>) @@ (10 :> <<"1", "0">>)

\* The value a successful read of the path returns.
ValueAt(md, st, key) ==
    IF md = "Mocked" THEN MockedValue
    ELSE IF st[key].kind = "I" THEN DecimalString[st[key].i]
    ELSE st[key].s

\* The reads issued by the step, and how often the step read a path.
StepReads == SubSeq(reads', Len(reads) + 1, Len(reads'))

Occurrences(q, x) == Cardinality({i \in 1..Len(q) : q[i] = x})

SentinelFiles(m) == {f \in DOMAIN m.secretFiles : m.secretFiles[f] = InVault}

\* C16: after a successful Manifest::secrets, the secrets map holds, for
\* every key that is vault-sourced in some env container, the store's value
\* at <path>/<key>, and every template secret of every container; the env
\* loop issued one read per distinct vault-sourced key (the secret files are
\* read besides).
C16_SecretsMapHoldsVaultAndTemplateSecrets ==
    [][(SecretsCalled /\ sres'.ok) =>
          LET pth == get_vault_path(sm, VaultFolder) IN
          /\ \A k \in VaultSourced(sm) :
                /\ Get(sm'.secrets, k) = <<ValueAt(vmode, store', VKey(pth, k))>>
                /\ Occurrences(StepReads, VKey(pth, k))
                      = 1 + (IF k \in SentinelFiles(sm) THEN 1 ELSE 0)
          /\ Len(StepReads)
                = Cardinality(VaultSourced(sm)) + Cardinality(SentinelFiles(sm))
          /\ \A c \in 1..Len(GetEnvVars(sm)) :
                \A k \in DOMAIN template_secrets(GetEnvVars(sm)[c]) :
                   Get(sm'.secrets, k) = <<template_secrets(GetEnvVars(sm)[c])[k]>>]_vars


\* The values of the model that are base64, as the tests of the store client
\* expect.
IsBase64(v) == v \in {B64Hi, <<"a", "G", "V", "s", "b", "G", "8", "g", "d", "2", "9", "y", "b", "G", "Q", "=">>}

\* The value a secret file ends up with when every read of the call succeeds.
FileValueAfter(m, md, st, f) ==
    IF m.secretFiles[f] = InVault
    THEN ValueAt(md, st, VKey(get_vault_path(m, VaultFolder), f))
    ELSE m.secretFiles[f]

\* C17: after a successful Manifest::secrets no secretFiles value is the
\* IN_VAULT sentinel and every value is base64; each sentinel was replaced
\* by the store's value at <path>/<key> and the other files are untouched;
\* and a call whose reads all succeed but which leaves a value that is not
\* base64 fails.
C17_SecretFilesResolvedAndBase64 ==
    [][SecretsCalled =>
          /\ sres'.ok =>
                /\ DOMAIN sm'.secretFiles = DOMAIN sm.secretFiles
                /\ \A f \in DOMAIN sm.secretFiles :
                      /\ sm'.secretFiles[f] # InVault
                      /\ IsBase64(sm'.secretFiles[f])
                      /\ sm'.secretFiles[f] = FileValueAfter(sm, vmode, store', f)
          /\ (\E f \in DOMAIN sm'.secretFiles : ~IsBase64(sm'.secretFiles[f]))
                => ~sres'.ok]_vars

\* In standard mode a sentinel file was replaced by the base64 value of the
\* store, next to a file that was declared with its value.
C17_Witness ==
    /\ calls >= 1 /\ sres.ok
    /\ vmode = "Standard"
    /\ \E f \in DOMAIN sm.secretFiles :
          LET key == VKey(get_vault_path(sm, VaultFolder), f) IN
          /\ key \in DOMAIN store
          /\ store[key] = SecretS(B64Hi)
          /\ sm.secretFiles[f] = B64Hi
          /\ \E i \in 1..Len(reads) : reads[i] = key
    /\ Cardinality(DOMAIN sm.secretFiles) = 2


\* The env containers of m that declare k as a template secret, and the
\* values they give it.
TemplateContainers(m, k) ==
    {c \in 1..Len(GetEnvVars(m)) :
        k \in DOMAIN GetEnvVars(m)[c] /\ GetEnvVars(m)[c][k].kind = "Tmpl"}

TemplateValues(m, k) == {GetEnvVars(m)[c][k].v : c \in TemplateContainers(m, k)}

\* C25: when the same template-secret key occurs in more than one env
\* container, Manifest::secrets fails if the occurrences have different
\* values, and accepts the key, storing that value once, if all occurrences
\* have the same value.
C25_DuplicateTemplateSecrets ==
    [][SecretsCalled =>
          \A k \in EnvKeys :
             Cardinality(TemplateContainers(sm, k)) > 1 =>
                /\ Cardinality(TemplateValues(sm, k)) > 1 => ~sres'.ok
                /\ Cardinality(TemplateValues(sm, k)) = 1 =>
                      /\ ~sres'.ok => sres'.err # "DifferentTemplateValues"
                      /\ sres'.ok =>
                            \A v \in TemplateValues(sm, k) : Get(sm'.secrets, k) = <<v>>]_vars


\* The name and the folder of the secret-store path of m.
PathName(m) == IF m.vault = <<>> THEN m.name ELSE m.vault[1].name

PathFolder(m) ==
    IF m.vault # <<>> /\ m.vault[1].region # <<>> THEN m.vault[1].region[1]
    ELSE VaultFolder

\* C26: every read of Manifest::secrets is of a key under <folder>/<name>,
\* name the vault override's name if an override is set and the manifest's
\* name otherwise, folder the override's region if set and the region's
\* vault folder otherwise; verify_secrets_exist lists that same path for the
\* same manifest.
C26_VaultPathHonoursOverride ==
    [][SecretsCalled =>
          LET pth == <<PathFolder(sm), PathName(sm)>>
              check == VerifySecretsExist(sm, TRUE, Keys(<<>>))
          IN /\ \A i \in 1..Len(StepReads) :
                   \E k \in EnvKeys \cup FileKeys : StepReads[i] = <<pth[1], pth[2], k>>
             /\ \A j \in 1..Len(check.listed) : check.listed[j] = pth
             /\ (KeysInVault(sm) \cup SentinelFiles(sm) # {}) => check.listed = <<pth>>]_vars

\* With an override of name and region, a key of the main env was read under
\* the override's path.
C26_Witness ==
    /\ calls >= 1
    /\ sm.vault = <<[name |-> "shared", region |-> <<"prod-uk">>]>>
    /\ \E i \in 1..Len(reads) : reads[i] = <<"prod-uk", "shared", "API_KEY">>
    /\ "API_KEY" \in DOMAIN sm.env /\ sm.env["API_KEY"] = FromVault


\* C28: when Manifest::secrets fails because a key is both vault-sourced and
\* template-sourced, it has issued no store read, and the secrets map and
\* the secretFiles of the manifest are as they were before the call.
C28_ConflictFailsBeforeAnyRead ==
    [][(SecretsCalled /\ ~sres'.ok /\ sres'.err = "TemplatedAndVault") =>
          /\ reads' = reads
          /\ requests' = requests
          /\ sm'.secrets = sm.secrets
          /\ sm'.secretFiles = sm.secretFiles]_vars

\* Against a real store, the call on a manifest with a key that is IN_VAULT
\* and templated failed on the conflict without a single request.
C28_Witness ==
    /\ calls >= 1
    /\ vmode = "Standard"
    /\ ~sres.ok /\ sres.err = "TemplatedAndVault"
    /\ VaultSourced(sm) \cap TemplateSourced(sm) # {}
    /\ reads = <<>>
    /\ requests = 0


(***************************************************************************)
(* Secret store client properties                                          *)
(***************************************************************************)

\* The last key Vault::read was called with.
LastRead == reads[Len(reads)]

\* A manifest that declares the secret files fs, all IN_VAULT, nothing else.
AllInVault(fs) == [EmptySecretsManifest EXCEPT !.secretFiles = [f \in fs |-> InVault]]

\* C18: in mocked mode every read returns the same fixed value, whatever the
\* key, without a request to the store and without failing; the value is
\* base64, so Manifest::secrets in mocked mode accepts a manifest whose
\* secretFiles are all IN_VAULT and leaves each file with that value.
C18_MockedReadIsFixedBase64 ==
    (vmode = "Mocked") =>
        /\ rres # NotCalled => rres = ROk(<<"a", "G", "V", "s", "b", "G", "8", "g", "d", "2", "9", "y", "b", "G", "Q", "=">>)
        /\ requests = (IF lres # NotCalled THEN 1 ELSE 0)
        /\ store = EmptyMap
        /\ reads # <<>> =>
              LET out == Secrets(AllInVault(FileKeys), vmode, store) IN
              /\ out.res = ROk(<<>>)
              /\ \A f \in FileKeys : out.m.secretFiles[f] = rres.v

\* Two different keys were read in mocked mode.
C18_Witness ==
    /\ vmode = "Mocked"
    /\ Len(reads) = 2 /\ reads[1] # reads[2]
    /\ rres.ok

\* C19: in standard mode a read returns the value entry of the secret's
\* data map, an integer as its decimal string; without a value entry the
\* read fails with InvalidSecretForm and returns no value.
C19_StandardReadReturnsValue ==
    (vmode = "Standard" /\ rres # NotCalled) =>
        /\ store[LastRead].kind = "S" => rres = ROk(store[LastRead].s)
        /\ store[LastRead].kind = "I" => rres = ROk(DecimalString[store[LastRead].i])
        /\ store[LastRead].kind = "NoValue" =>
              /\ ~rres.ok
              /\ rres.err = "InvalidSecretForm"
              /\ "v" \notin DOMAIN rres

\* The integer -2 was read as "-2".
C19_Witness ==
    /\ vmode = "Standard"
    /\ rres = ROk(<<"-", "2">>)
    /\ store[LastRead] = SecretI(-2)

\* The entries of ks that are not sub-folders, in order.
RECURSIVE WithoutFolders(_)
WithoutFolders(ks) ==
    IF ks = <<>> THEN <<>>
    ELSE IF Head(ks) # <<>> /\ Head(ks)[Len(Head(ks))] = "/" THEN WithoutFolders(Tail(ks))
    ELSE <<Head(ks)>> \o WithoutFolders(Tail(ks))

\* C20: Vault::list returns exactly the entries of the keys list that do not
\* end in "/"; a response without a keys entry is an error.
C20_ListFiltersSubFolders ==
    (lres # NotCalled) =>
        /\ listing.kind = "Keys" => lres = ROk(WithoutFolders(listing.keys))
        /\ listing.kind = "NoKeys" => ~lres.ok

\* A listing with a sub-folder, a key and a key that starts with a slash.
C20_Witness ==
    /\ lres.ok
    /\ listing.kind = "Keys"
    /\ \E i, j, l \in 1..Len(listing.keys) :
          /\ listing.keys[i] = <<"f", "/">>
          /\ listing.keys[j] = <<"k">>
          /\ listing.keys[l] = <<"/", "k">>
    /\ Len(lres.v) = 2


(***************************************************************************)
(* Dependency grapher properties                                           *)
(***************************************************************************)

\* A chain of at most n declared dependencies leads from a to b.
RECURSIVE DependsOnWithin(_, _, _)
DependsOnWithin(a, b, n) ==
    /\ n >= 1
    /\ \/ <<a, b>> \in depends
       \/ \E c \in Services : <<a, c>> \in depends /\ DependsOnWithin(c, b, n - 1)

\* Some service depends, directly or through others, on itself.
Cyclic == \E a \in Services : DependsOnWithin(a, a, Cardinality(Services))

\* C21: building the dependency graph of a manifest set with a dependency
\* cycle fails with the cycle-detected error; no rollout order is produced
\* for a cyclic set.
C21_CycleIsDetected ==
    (gres # NotCalled /\ Cyclic) =>
        /\ ~gres.ok
        /\ gres.err = "CycleDetected"

\* A depends on B and B depends on A, and the build reported the cycle.
C21_Witness ==
    /\ {<<"svc-a", "svc-b">>, <<"svc-b", "svc-a">>} \subseteq depends
    /\ gres # NotCalled
    /\ ~gres.ok
    /\ gres.err = "CycleDetected"


(***************************************************************************)
(* Pre-flight check properties                                             *)
(***************************************************************************)

\* A step of the specification that is a call of verify_secrets_exist.
PreflightCalled == eres = NotCalled /\ eres' # NotCalled

\* The keys m declares IN_VAULT in its env or its secretFiles.
DeclaredInVault(m) ==
    {k \in EnvKeys : Get(m.env, k) = <<FromVault>>} \cup SentinelFiles(m)

\* The secrets the store listed to the call: the keys of the response that
\* are no sub-folders; none when no list of keys was received.
ListedSecrets ==
    IF Len(listed') = Len(listed) + 1 /\ listing'.kind = "Keys"
    THEN {k \in EnvKeys \cup FileKeys :
             \E i \in 1..Len(listing'.keys) : listing'.keys[i] = <<k>>}
    ELSE {}

\* C27: verify_secrets_exist fails whenever a key declared IN_VAULT in the
\* env or the secretFiles of the manifest is absent from the listing of the
\* service's vault path, succeeds when all of them are listed, never
\* modifies the manifest, and returns success without contacting the store
\* when no key is declared IN_VAULT.
C27_PreflightCrossReferencesListing ==
    [][PreflightCalled =>
          /\ sm' = sm
          /\ DeclaredInVault(sm) = {} =>
                (eres'.ok /\ requests' = requests /\ listed' = listed)
          /\ (DeclaredInVault(sm) # {} /\ ~(DeclaredInVault(sm) \subseteq ListedSecrets))
                => ~eres'.ok
          /\ (DeclaredInVault(sm) # {} /\ DeclaredInVault(sm) \subseteq ListedSecrets)
                => (eres'.ok /\ listed' = Append(listed, <<PathFolder(sm), PathName(sm)>>))]_vars

\* A secret file declared IN_VAULT was missing from the keys the store
\* listed, next to an env key that was listed.
C27_Witness ==
    /\ eres = RErr("SecretFileNotFound", <<"ssl-keystore">>)
    /\ listing.kind = "Keys"
    /\ "ssl-keystore" \in SentinelFiles(sm)
    /\ KeysInVault(sm) # {}
    /\ requests = 1


\* C29: if verify_secrets_exist succeeds against a store listing, every key
\* that Manifest::secrets reads from the store for the same manifest (the
\* vault-sourced keys of the main env, of each sidecar, worker and cron job,
\* and the IN_VAULT secret files) is present in that listing.
C29_PreflightCoversSecretsReads ==
    [][(PreflightCalled /\ eres'.ok) =>
          (VaultSourced(sm) \cup SentinelFiles(sm)) \subseteq ListedSecrets]_vars


=============================================================================
